---- MODULE Spec2Model ----
(***************************************************************************)
(* Dual-mode fleet maintenance chatbot (src/app.py and src/main.py).       *)
(*                                                                         *)
(* The two files are two variants of one program; the variable `variant`   *)
(* says which one runs.  Python strings are TLA+ strings, handled          *)
(* character by character with Len, SubSeq and \o.  The backtick is        *)
(* written ^ (the TLA+ lexer cannot hold a backtick inside a string) and   *)
(* the emoji that prefix some literals are left out.                       *)
(***************************************************************************)
EXTENDS Integers, Sequences, FiniteSets, TLC

(***************************************************************************)
(* Bounds of the model and constants of the program.                       *)
(***************************************************************************)
\* respond invocations (queue workers) that may run concurrently
NumProcs == 2
\* start_new_chat invocations that may run concurrently
NumNewChats == 1
\* the functions taken alone: the columns of a result, the rows beyond the
\* display limit, and the pieces of a completion text
MaxCols == 2
ExtraRows == 1
MaxPieces == 4

\* current_chat[0]["message"][:50]
TitleLen == 50
\* display_limit = min(50, len(results)) in app.py
AppDisplayLimit == 50
\* results[:100] in main.py
MainDisplayLimit == 100
\* query_results[:1000] in the fallback of app.py's interpret_sql_results
FallbackLimit == 1000

Procs == 1..NumProcs
NewChats == 1..NumNewChats
Variants == {"app", "main"}

UserMode == "User Mode"
FleetMode == "Fleet Manager Mode"
\* choices of the mode_selector radio
Modes == {UserMode, FleetMode}

USERID == "manager123"
USER == "FleetManager"

(***************************************************************************)
(* Python values: a str, or None.                                          *)
(***************************************************************************)
PyNone == [none |-> TRUE, s |-> ""]
PyStr(s) == [none |-> FALSE, s |-> s]
\* bool(v): None and "" are falsy
Truthy(v) == ~v.none /\ v.s # ""
\* f"{v}"
Fmt(v) == IF v.none THEN "None" ELSE v.s

Min(a, b) == IF a <= b THEN a ELSE b
\* s[:n]
Prefix(s, n) == SubSeq(s, 1, Min(n, Len(s)))
IsSpace(c) == c \in {" ", "\n", "\t"}
\* s has pat at position i
StartsAt(s, i, pat) == /\ i + Len(pat) - 1 <= Len(s)
                       /\ SubSeq(s, i, i + Len(pat) - 1) = pat
\* t in s
Contains(s, t) == \E i \in 1..(Len(s) + 1) : StartsAt(s, i, t)

RECURSIVE SkipSpace(_, _)
\* the position after the longest run of whitespace that starts at i
SkipSpace(s, i) == IF i <= Len(s) /\ IsSpace(SubSeq(s, i, i))
                   THEN SkipSpace(s, i + 1)
                   ELSE i

RECURSIVE LastNonSpace(_, _)
LastNonSpace(s, j) == IF j >= 1 /\ IsSpace(SubSeq(s, j, j))
                      THEN LastNonSpace(s, j - 1)
                      ELSE j

\* str.strip()
Strip(s) == SubSeq(s, SkipSpace(s, 1), LastNonSpace(s, Len(s)))

FenceSql == "^^^sql"
Fence == "^^^"

RECURSIVE ReSubFrom(_, _)
\* re.sub(r'^^^sql\s*|\s*^^^', '', s) from position i on: at each position
\* the first alternative is tried, then the second; a match is deleted and
\* the scan goes on after it, otherwise the character is kept.
ReSubFrom(s, i) ==
    IF i > Len(s) THEN ""
    ELSE IF StartsAt(s, i, FenceSql)
         THEN ReSubFrom(s, SkipSpace(s, i + Len(FenceSql)))
    ELSE IF StartsAt(s, SkipSpace(s, i), Fence)
         THEN ReSubFrom(s, SkipSpace(s, i) + Len(Fence))
    ELSE SubSeq(s, i, i) \o ReSubFrom(s, i + 1)

ReSubFences(s) == ReSubFrom(s, 1)

\* the cleanup of generate_sql_query: strip, re.sub, strip
CleanSql(s) == Strip(ReSubFences(Strip(s)))

(***************************************************************************)
(* The completion capability and generate_sql_query.                       *)
(***************************************************************************)
\* what llm_client.chat.completions.create can do: raise (provider error,
\* timeout), or return a message whose content is a str or None
Raised == [raised |-> TRUE, content |-> PyNone]
Returned(c) == [raised |-> FALSE, content |-> c]

\* generate_sql_query: None when the call raises or the content is None
\* (None.strip() raises inside the try), else the cleaned text
generate_sql_query(completion) ==
    IF completion.raised \/ completion.content.none
    THEN PyNone
    ELSE PyStr(CleanSql(completion.content.s))

(***************************************************************************)
(* The warehouse capability and execute_sql_query.                         *)
(***************************************************************************)
\* what the warehouse can do: fail at a stage ("connect", "cursor",
\* "execute", "fetch") with an error text, or return the columns and the
\* rows (cells already as their str()); and, for each resource, whether its
\* close() raises, with the text of that error
WhFailed(stage, err) ==
    [fail |-> stage, err |-> err, columns |-> <<>>, rows |-> <<>>,
     cursor_close_raises |-> FALSE, connection_close_raises |-> FALSE,
     close_err |-> ""]
WhRows(columns, rows) ==
    [fail |-> "none", err |-> "", columns |-> columns, rows |-> rows,
     cursor_close_raises |-> FALSE, connection_close_raises |-> FALSE,
     close_err |-> ""]
CloseRaising(wh, cursor, connection, err) ==
    [wh EXCEPT !.cursor_close_raises = cursor,
               !.connection_close_raises = connection,
               !.close_err = err]

DisplayLimit(v) == IF v = "app" THEN AppDisplayLimit ELSE MainDisplayLimit

\* the last position at or before n where columns has the name k
RECURSIVE LastIndex(_, _, _)
LastIndex(columns, k, n) ==
    IF n = 0 \/ columns[n] = k THEN n ELSE LastIndex(columns, k, n - 1)

\* the lines of one row: dict(zip(columns, row)).items() keeps each name at
\* its first position with the value of its last occurrence
RECURSIVE FormatCells(_, _, _)
FormatCells(columns, row, i) ==
    IF i > Min(Len(columns), Len(row)) THEN ""
    ELSE IF \E j \in 1..(i - 1) : columns[j] = columns[i]
         THEN FormatCells(columns, row, i + 1)
    ELSE columns[i] \o ": "
         \o row[LastIndex(columns, columns[i], Min(Len(columns), Len(row)))]
         \o "\n" \o FormatCells(columns, row, i + 1)

\* one block per row, rows i..n, in order (the loop over the rows, taken
\* by halves so that its evaluation stays shallow)
RECURSIVE FormatBlocks(_, _, _, _)
FormatBlocks(columns, rows, i, n) ==
    IF i > n THEN ""
    ELSE IF i = n THEN FormatCells(columns, rows[i], 1) \o "\n"
    ELSE FormatBlocks(columns, rows, i, (i + n) \div 2)
         \o FormatBlocks(columns, rows, (i + n) \div 2 + 1, n)

FormatResults_noLimit(v, columns, rows) ==
    LET n == Len(rows)
        head == "Query Results (" \o ToString(n) \o " rows):\n\n"
    IN IF n = 1 /\ Len(columns) = 1
       THEN head \o columns[1] \o ": " \o rows[1][1] \o "\n"
       ELSE head \o FormatBlocks(columns, rows, 1, n)

FormatResults_neverCompact(v, columns, rows) ==
    LET n == Len(rows)
        limit == Min(DisplayLimit(v), n)
        head == "Query Results (" \o ToString(n) \o " rows):\n\n"
    IN head \o FormatBlocks(columns, rows, 1, limit)
            \o (IF n > limit
                THEN "\n(Showing first " \o ToString(limit) \o " of "
                     \o ToString(n) \o " results)"
                ELSE "")

FormatResults(v, columns, rows) ==
    LET n == Len(rows)
        limit == Min(DisplayLimit(v), n)
        head == "Query Results (" \o ToString(n) \o " rows):\n\n"
    IN IF n = 1 /\ Len(columns) = 1
       THEN head \o columns[1] \o ": " \o rows[1][1] \o "\n"
       ELSE head \o FormatBlocks(columns, rows, 1, limit)
            \o (IF n > limit
                THEN "\n(Showing first " \o ToString(limit) \o " of "
                     \o ToString(n) \o " results)"
                ELSE "")

NoDataText == "No data found matching your query."

\* how a block of code ends: an exception with the text of str(e) is
\* leaving it, or it returned (formatted_results, results)
Exc(err) == [raised |-> TRUE, err |-> err, text |-> "", rows |-> <<>>]
Ret(text, rows) == [raised |-> FALSE, err |-> "", text |-> text, rows |-> rows]

\* the resources the call got hold of before the stage that failed
HasConnection(wh) == wh.fail # "connect"
HasCursor(wh) == wh.fail \notin {"connect", "cursor"}

TryBody_noEmptyCase(v, wh) ==
    IF wh.fail # "none" THEN Exc(wh.err)
    ELSE Ret(FormatResults(v, wh.columns, wh.rows), wh.rows)

\* the statements of the try: connect, cursor, execute, fetchall, the
\* columns, and the formatting
TryBody(v, wh) ==
    IF wh.fail # "none" THEN Exc(wh.err)
    ELSE IF wh.rows = <<>> THEN Ret(NoDataText, <<>>)
    ELSE Ret(FormatResults(v, wh.columns, wh.rows), wh.rows)

Caught_nothing(out) == out

\* except Exception as e: return f"Error executing query: {str(e)}", []
Caught(out) ==
    IF out.raised THEN Ret("Error executing query: " \o out.err, <<>>) ELSE out

\* leaving a `with` of main.py: __exit__ closes the resource, and an error
\* of close() takes the place of what was leaving the block
WithExit(out, held, close_raises, err) ==
    IF held /\ close_raises THEN Exc(err) ELSE out

\* one close of the finally of app.py: `if x:` and close() in a try whose
\* except passes, so what leaves the function stays what it was
FinallyClose(out, held, close_raises, err) == out

\* how many times close() is invoked on a resource: once when it is held,
\* whatever happened in the try
Closes(held) == IF held THEN 1 ELSE 0

\* execute_sql_query with what it does to its resources: whether it raises,
\* what it returns, and the close() calls made on the cursor and on the
\* connection
ExecuteOutcome(v, wh) ==
    LET body == TryBody(v, wh)
        out ==
          IF v = "app"
          THEN FinallyClose(
                 FinallyClose(Caught(body), HasCursor(wh),
                              wh.cursor_close_raises, wh.close_err),
                 HasConnection(wh), wh.connection_close_raises, wh.close_err)
          ELSE Caught(
                 WithExit(
                   WithExit(body, HasCursor(wh),
                            wh.cursor_close_raises, wh.close_err),
                   HasConnection(wh), wh.connection_close_raises, wh.close_err))
    IN [raised |-> out.raised, text |-> out.text, rows |-> out.rows,
        cursor_closes |-> Closes(HasCursor(wh)),
        connection_closes |-> Closes(HasConnection(wh))]

\* execute_sql_query as its caller sees it: (formatted_results, results)
execute_sql_query(v, wh) ==
    [text |-> ExecuteOutcome(v, wh).text, rows |-> ExecuteOutcome(v, wh).rows]

(***************************************************************************)
(* interpret_sql_results.                                                  *)
(***************************************************************************)
\* the narration: the content of the completion (it may be None), or on a
\* failure the results themselves (cut and prefixed in app.py)
interpret_sql_results(v, completion, query_results) ==
    IF completion.raised
    THEN IF v = "app"
         THEN PyStr("Here are the query results:\n\n"
                    \o Prefix(query_results, FallbackLimit))
         ELSE PyStr(query_results)
    ELSE completion.content

(***************************************************************************)
(* The fixed texts of chat_orchestrator.                                   *)
(***************************************************************************)
UnavailableText == "The AI service is not available. Please check the configuration."
NoQueryText == "I couldn't generate a valid query for your question. Please try rephrasing it."
ExecutedPrefix == "Query executed successfully.\n\n"
GeneratingText == "Analyzing your question and generating database query..."
AnalyzingText == "Analyzing results..."
ExecutingText(sql) == "Executing query...\n\n^" \o sql \o "^\n\n"
UserErrorText(v) ==
    IF v = "app"
    THEN "I'm having trouble processing your request. Please try again."
    ELSE "I'm sorry, I'm having trouble processing your request. Please try again later."
ComposeResponse_noEcho(v, sql, final_answer) ==
    IF v = "app"
    THEN PyStr("**Query Executed:**\n\n" \o Fmt(final_answer))
    ELSE final_answer

\* complete_response of app.py; main.py appends the narration alone
ComposeResponse(v, sql, final_answer) ==
    IF v = "app"
    THEN PyStr("**Query Executed:**\n^^^sql\n" \o sql \o "\n^^^\n\n" \o Fmt(final_answer))
    ELSE final_answer
WelcomeMsg == "New chat started! How can I help you today?"

(***************************************************************************)
(* Inputs of the model.                                                    *)
(***************************************************************************)
ShortMsg == "How many trucks need maintenance?"
LongMsg == "Which vans on the northern routes are due for a brake check?"
BlankMsg == "  "
Messages == {ShortMsg, LongMsg, BlankMsg}

\* contents a completion can hold: absent, empty, an empty fenced block, and
\* a fenced text
Contents == {PyNone, PyStr(""), PyStr("^^^sql\n^^^"),
             PyStr("^^^sql\nSELECT COUNT(*) as count FROM t\n^^^")}
Completions == {Raised} \cup {Returned(c) : c \in Contents}

WarehouseResults ==
    {WhFailed("execute", "syntax error"),
     WhRows(<<"count">>, <<>>),
     WhRows(<<"count">>, <<<<"7">>>>)}

(***************************************************************************)
(* State.                                                                  *)
(***************************************************************************)
VARIABLES
    variant,          \* which file runs: "app" or "main"
    llm_client,       \* TRUE: the client was built; FALSE: llm_client = None
    collection,       \* TRUE: the collection is set; FALSE: collection = None
    current_chat,     \* the global list of Turns {message, response}
    store,            \* the documents of the collection, in insertion order
    mode_selector,    \* the value of the radio
    mode_description, \* the markdown under the radio
    chatbot,          \* the transcript component: a list of (message, response)
    previous_chats_display, \* the sidebar markdown
    run,              \* one respond invocation per p \in Procs
    newchat,          \* one start_new_chat invocation per n \in NewChats
    probe             \* one call of a function taken alone: input and output

vars == <<variant, llm_client, collection, current_chat, store, mode_selector,
          mode_description, chatbot, previous_chats_display, run, newchat,
          probe>>

config == <<variant, llm_client, collection>>
ui == <<mode_selector, mode_description>>

\* a respond invocation before it starts.  calls and appended are history
\* variables: the external calls made and the Turns appended by the run.
IdleRun == [pc |-> "idle", message |-> "", mode |-> UserMode, history |-> <<>>,
            sql_query |-> PyNone, query_results |-> "", raw_data |-> <<>>,
            final_answer |-> PyNone,
            yielded |-> <<>>, calls |-> <<>>, appended |-> <<>>]

\* a start_new_chat invocation before it starts.  outgoing, insert_ok and
\* saved are history variables: the session it found, whether the store
\* took the write, and the documents it added to the store.
IdleNewChat == [pc |-> "idle", mode |-> UserMode, outgoing |-> <<>>,
                insert_ok |-> TRUE, saved |-> <<>>]

\* no function is under study
IdleProbe ==
    [fn |-> "none", pc |-> "ready", wh |-> WhRows(<<>>, <<>>), text |-> "",
     outcome |-> ExecuteOutcome("app", WhRows(<<>>, <<>>)), sql |-> PyNone]

update_mode_description(m) ==
    IF m = UserMode THEN "User Mode Active" ELSE "Fleet Manager Mode Active"

Init ==
    /\ variant \in Variants
    /\ llm_client \in BOOLEAN
    \* main.py builds the collection without a try: it is never None
    /\ collection \in (IF variant = "app" THEN BOOLEAN ELSE {TRUE})
    /\ current_chat = <<>>
    /\ store = <<>>
    /\ mode_selector = UserMode
    /\ mode_description = update_mode_description(UserMode)
    /\ chatbot = <<>>
    /\ previous_chats_display = ""
    /\ run = [p \in Procs |-> IdleRun]
    /\ newchat = [n \in NewChats |-> IdleNewChat]
    /\ probe = IdleProbe

(***************************************************************************)
(* respond and chat_orchestrator.  A run stops between its steps only      *)
(* where the code blocks on a network call, which is where the other       *)
(* handlers of the process get to run.                                     *)
(***************************************************************************)
Turn(message, response) == [message |-> message, response |-> response]

Unavailable_never(client) == FALSE

\* if not llm_client
Unavailable(client) == ~client

NoQuery_onlyNone(sql) == sql.none

\* if not sql_query
NoQuery(sql) == ~Truthy(sql)

NoRows_never(raw_data) == FALSE

\* if not raw_data
NoRows(raw_data) == raw_data = <<>>

\* one `yield` of chat_orchestrator as respond consumes it:
\* history[-1] = (message, partial_response)
Yield(r, v) ==
    [r EXCEPT !.yielded = Append(@, v),
              !.history = [@ EXCEPT ![Len(@)] = <<r.message, v>>]]

\* a progress string, which only main.py yields
Progress(r, text) == IF variant = "main" THEN Yield(r, PyStr(text)) ELSE r

\* current_chat.append({"message": message, "response": response})
AppendTurn(chat, message, response) == Append(chat, Turn(message, response))

\* history variable: a call chat_orchestrator made (generate_sql_query,
\* execute_sql_query, interpret_sql_results, or the completion of User Mode)
\* and what it returned
Called(r, what, result) ==
    [r EXCEPT !.calls = Append(@, [what |-> what, result |-> result])]

\* the first pair respond puts in the transcript for its message
Pending(message) ==
    <<message, IF variant = "app" THEN PyStr("") ELSE PyNone>>

Terminal_lastProgress(p, r, response) ==
    /\ current_chat' = AppendTurn(current_chat, r.message,
                                  IF r.yielded # <<>>
                                  THEN r.yielded[Len(r.yielded)] ELSE response)
    /\ run' = [run EXCEPT ![p] =
                 [Yield(r, response) EXCEPT
                    !.pc = "done",
                    !.appended = @ \o SubSeq(current_chat', Len(current_chat) + 1,
                                             Len(current_chat'))]]
    /\ chatbot' = run'[p].history

\* the end of a pipeline: the Turn is appended, the response is yielded and
\* the generator returns.  appended is a history variable: what this run
\* added to current_chat.
Terminal(p, r, response) ==
    /\ current_chat' = AppendTurn(current_chat, r.message, response)
    /\ run' = [run EXCEPT ![p] =
                 [Yield(r, response) EXCEPT
                    !.pc = "done",
                    !.appended = @ \o SubSeq(current_chat', Len(current_chat) + 1,
                                             Len(current_chat'))]]
    /\ chatbot' = run'[p].history

\* a step that goes on to the next network call, after the progress string
\* main.py yields
Continue(p, r, text, pc) ==
    /\ run' = [run EXCEPT ![p] = [Progress(r, text) EXCEPT !.pc = pc]]
    /\ chatbot' = IF variant = "main" THEN run'[p].history ELSE chatbot
    /\ UNCHANGED current_chat

\* respond up to the first network call: the blank check, the new pair,
\* and the routing of chat_orchestrator
Respond(p, m) ==
    LET r == [run[p] EXCEPT !.message = m, !.mode = mode_selector]
        r0 == [r EXCEPT !.history = Append(chatbot, Pending(m))]
    IN /\ run[p].pc = "idle"
       \* the invocations are numbered in the order they start
       /\ \A q \in 1..(p - 1) : run[q].pc # "idle"
       /\ IF Strip(m) = ""
          THEN \* app.py yields the history as it is, main.py yields nothing
               /\ run' = [run EXCEPT ![p] = [r EXCEPT !.pc = "done",
                                                      !.history = chatbot]]
               /\ UNCHANGED chatbot
          ELSE IF Unavailable(llm_client)
          THEN \* the fixed text is yielded and nothing is appended
               /\ run' = [run EXCEPT ![p] =
                            [Yield(r0, PyStr(UnavailableText)) EXCEPT !.pc = "done"]]
               /\ chatbot' = run'[p].history
          ELSE IF r.mode = FleetMode
          THEN /\ run' = [run EXCEPT ![p] =
                            [Progress(r0, GeneratingText) EXCEPT !.pc = "generate"]]
               /\ chatbot' = IF variant = "main" THEN run'[p].history ELSE chatbot
          ELSE /\ run' = [run EXCEPT ![p] = [r0 EXCEPT !.pc = "user"]]
               /\ UNCHANGED chatbot
       /\ UNCHANGED <<config, probe, ui, current_chat, store, previous_chats_display, newchat>>

Generate_retry(p, completion) ==
    LET sql == generate_sql_query(completion)
        r == [Called(run[p], "synthesis", sql) EXCEPT !.sql_query = sql]
    IN /\ run[p].pc = "generate"
       /\ IF NoQuery(sql) /\ run[p].calls = <<>>
          THEN /\ run' = [run EXCEPT ![p] = r]
               /\ UNCHANGED <<current_chat, chatbot>>
          ELSE IF NoQuery(sql)
          THEN Terminal(p, r, PyStr(NoQueryText))
          ELSE Continue(p, r, ExecutingText(sql.s), "execute")
       /\ UNCHANGED <<config, probe, ui, store, previous_chats_display, newchat>>

\* generate_sql_query returns; a falsy query ends the run
Generate(p, completion) ==
    LET sql == generate_sql_query(completion)
        r == [Called(run[p], "synthesis", sql) EXCEPT !.sql_query = sql]
    IN /\ run[p].pc = "generate"
       /\ IF NoQuery(sql)
          THEN Terminal(p, r, PyStr(NoQueryText))
          ELSE Continue(p, r, ExecutingText(sql.s), "execute")
       /\ UNCHANGED <<config, probe, ui, store, previous_chats_display, newchat>>

\* execute_sql_query returns; an empty row list ends the run
Execute(p, wh) ==
    LET res == execute_sql_query(variant, wh)
        r == [Called(run[p], "warehouse", res) EXCEPT !.query_results = res.text,
                                                     !.raw_data = res.rows]
    IN /\ run[p].pc = "execute"
       /\ IF NoRows(res.rows)
          THEN Terminal(p, r, PyStr(ExecutedPrefix \o res.text))
          ELSE Continue(p, r, AnalyzingText, "interpret")
       /\ UNCHANGED <<config, probe, ui, store, previous_chats_display, newchat>>

\* interpret_sql_results returns and the composed response ends the run
Interpret(p, completion) ==
    LET final_answer == interpret_sql_results(variant, completion,
                                              run[p].query_results)
        r == [Called(run[p], "interpretation", final_answer)
                EXCEPT !.final_answer = final_answer]
    IN /\ run[p].pc = "interpret"
       /\ Terminal(p, r, ComposeResponse(variant, r.sql_query.s, final_answer))
       /\ UNCHANGED <<config, probe, ui, store, previous_chats_display, newchat>>

UserResponse_noError(v, completion) ==
    IF completion.raised THEN PyStr("") ELSE completion.content

\* final_answer or error_msg of the User Mode branch
UserResponse(v, completion) ==
    IF completion.raised THEN PyStr(UserErrorText(v)) ELSE completion.content

\* User Mode: the one completion call returns or raises
UserAdvice(p, completion) ==
    /\ run[p].pc = "user"
    /\ Terminal(p, Called(run[p], "advice", completion),
                UserResponse(variant, completion))
    /\ UNCHANGED <<config, probe, ui, store, previous_chats_display, newchat>>

(***************************************************************************)
(* The session store and start_new_chat.                                   *)
(***************************************************************************)
\* the document insert_one writes; the timestamp is the logical time of
\* the insert
Document(st, title, chat, mode) ==
    [userid |-> USERID, user |-> USER, mode |-> mode, title |-> title,
     timestamp |-> Len(st) + 1, conversation |-> chat]

\* save_chat_session(title, chat, mode) on the store st, where ok says
\* whether insert_one succeeds: the store afterwards, and whether the call
\* raised.  app.py skips a None collection and catches the error of the
\* insert; main.py does neither.
save_chat_session(v, coll, st, title, chat, mode, ok) ==
    IF chat = <<>> \/ (v = "app" /\ ~coll)
    THEN [store |-> st, raised |-> FALSE]
    ELSE IF ok
    THEN [store |-> Append(st, Document(st, title, chat, mode)), raised |-> FALSE]
    ELSE [store |-> st, raised |-> (v = "main")]

RECURSIVE Reverse(_)
Reverse(q) == IF q = <<>> THEN <<>> ELSE Append(Reverse(Tail(q)), Head(q))

\* get_all_chats() where ok says whether find succeeds: the chats newest
\* first, and whether the call raised
get_all_chats(v, coll, st, ok) ==
    IF v = "app" /\ ~coll THEN [chats |-> <<>>, raised |-> FALSE]
    ELSE IF ok THEN [chats |-> Reverse(st), raised |-> FALSE]
    ELSE [chats |-> <<>>, raised |-> (v = "main")]

RECURSIVE ChatsMarkdown(_, _)
ChatsMarkdown(v, chats) ==
    IF chats = <<>> THEN ""
    ELSE "* **" \o Head(chats).title \o "**  \n*" \o Head(chats).mode \o "*"
         \o (IF v = "app" THEN " - " \o ToString(Head(chats).timestamp) ELSE "")
         \o "\n\n" \o ChatsMarkdown(v, Tail(chats))

\* show_previous_chats() on the list get_all_chats returned
show_previous_chats(v, chats) ==
    IF ChatsMarkdown(v, chats) # "" THEN ChatsMarkdown(v, chats)
    ELSE "No previous chats found."

SessionTitle_whole(chat) == chat[1].message

\* the title start_new_chat gives the outgoing session
SessionTitle(chat) == Prefix(chat[1].message, TitleLen)

\* start_new_chat up to the return of save_chat_session: the test of
\* current_chat, the title and the insert
StartNewChat(n, ok) ==
    LET saved == save_chat_session(variant, collection, store,
                                   SessionTitle(current_chat), current_chat,
                                   mode_selector, ok)
    IN /\ newchat[n].pc = "idle"
       /\ \A k \in 1..(n - 1) : newchat[k].pc # "idle"
       \* the store has an outcome only when insert_one is called
       /\ (current_chat = <<>> \/ (variant = "app" /\ ~collection)) => ok
       /\ IF current_chat # <<>>
          THEN /\ store' = saved.store
               /\ newchat' = [newchat EXCEPT ![n] =
                                [pc |-> IF saved.raised THEN "raised" ELSE "reset",
                                 mode |-> mode_selector,
                                 outgoing |-> current_chat,
                                 insert_ok |-> ok,
                                 saved |-> SubSeq(store', Len(store) + 1, Len(store'))]]
          ELSE /\ newchat' = [newchat EXCEPT ![n] =
                                [pc |-> "reset", mode |-> mode_selector,
                                 outgoing |-> <<>>, insert_ok |-> TRUE,
                                 saved |-> <<>>]]
               /\ UNCHANGED store
       /\ UNCHANGED <<config, probe, ui, current_chat, chatbot, previous_chats_display, run>>

\* the transcript start_new_chat returns
NewTranscript(v) == IF v = "app" THEN <<>> ELSE <<<<WelcomeMsg, PyStr("")>>>>

\* the rest of start_new_chat: current_chat = [], show_previous_chats(), and
\* the return of the new transcript and the sidebar
ResetChat(n, ok) ==
    LET got == get_all_chats(variant, collection, store, ok)
    IN /\ newchat[n].pc = "reset"
       \* the store has an outcome only when find is called
       /\ (variant = "app" /\ ~collection) => ok
       /\ current_chat' = <<>>
       /\ IF got.raised
          THEN /\ newchat' = [newchat EXCEPT ![n].pc = "raised"]
               /\ UNCHANGED <<chatbot, previous_chats_display>>
          ELSE /\ newchat' = [newchat EXCEPT ![n].pc = "done"]
               /\ chatbot' = NewTranscript(variant)
               /\ previous_chats_display' = show_previous_chats(variant, got.chats)
       /\ UNCHANGED <<config, probe, ui, store, run>>

\* mode_selector.change
SetMode(m) ==
    /\ m # mode_selector
    /\ mode_selector' = m
    /\ mode_description' = update_mode_description(m)
    /\ UNCHANGED <<config, probe, current_chat, store, chatbot, previous_chats_display,
                   run, newchat>>

Next ==
    \/ \E p \in Procs, m \in Messages : Respond(p, m)
    \/ \E p \in Procs, c \in Completions : Generate(p, c)
    \/ \E p \in Procs, wh \in WarehouseResults : Execute(p, wh)
    \/ \E p \in Procs, c \in Completions : Interpret(p, c)
    \/ \E p \in Procs, c \in Completions : UserAdvice(p, c)
    \/ \E n \in NewChats, ok \in BOOLEAN : StartNewChat(n, ok)
    \/ \E n \in NewChats, ok \in BOOLEAN : ResetChat(n, ok)
    \/ \E m \in Modes : SetMode(m)

Spec == Init /\ [][Next]_vars

(***************************************************************************)
(* The functions taken alone: one call of execute_sql_query or of          *)
(* generate_sql_query on an input drawn from a bounded set.                *)
(***************************************************************************)
ColName(j) == "c" \o ToString(j)
Cell(i, j) == "v" \o ToString(i) \o "." \o ToString(j)

\* a result of n rows and k columns
Table(n, k) ==
    WhRows([j \in 1..k |-> ColName(j)],
           [i \in 1..n |-> [j \in 1..k |-> Cell(i, j)]])

\* the row counts around the cases of the formatting: none, one, two, the
\* display limit, and more than the limit
RowCounts(v) ==
    {0, 1, 2, DisplayLimit(v)}
      \cup ((DisplayLimit(v) + 1)..(DisplayLimit(v) + ExtraRows))

ExecStages == {"connect", "cursor", "execute", "fetch"}

\* what the warehouse does in one call, the errors of close() included
ExecInputs(v) ==
    LET plain == {WhFailed(stage, "syntax error") : stage \in ExecStages}
                   \cup {Table(n, k) : n \in RowCounts(v), k \in 1..MaxCols}
                   \cup {WhRows(<<"count">>, <<<<"7">>>>)}
    IN {CloseRaising(wh, cur, con, "close failed") :
          wh \in plain, cur \in BOOLEAN, con \in BOOLEAN}

\* what a completion text is made of: backticks, the fence markers,
\* whitespace and SQL
Pieces == {"^", "^^", "^^^", "^^^sql", " ", "SELECT 1"}

RECURSIVE Join(_)
Join(q) == IF q = <<>> THEN "" ELSE Head(q) \o Join(Tail(q))

CleanInputs ==
    {Join(q) : q \in UNION {[1..n -> Pieces] : n \in 0..MaxPieces}}

ExecProbe(wh) == [IdleProbe EXCEPT !.fn = "execute", !.wh = wh]
CleanProbe(text) == [IdleProbe EXCEPT !.fn = "clean", !.text = text]

InitPure ==
    /\ variant \in Variants
    /\ llm_client = TRUE
    /\ collection = TRUE
    /\ current_chat = <<>>
    /\ store = <<>>
    /\ mode_selector = FleetMode
    /\ mode_description = update_mode_description(FleetMode)
    /\ chatbot = <<>>
    /\ previous_chats_display = ""
    /\ run = [p \in Procs |-> IdleRun]
    /\ newchat = [n \in NewChats |-> IdleNewChat]
    /\ probe \in {ExecProbe(wh) : wh \in ExecInputs(variant)}
                   \cup {CleanProbe(text) : text \in CleanInputs}

\* the call of execute_sql_query(sql_query)
ApplyExecute ==
    /\ probe.fn = "execute" /\ probe.pc = "ready"
    /\ probe' = [probe EXCEPT !.pc = "applied",
                              !.outcome = ExecuteOutcome(variant, probe.wh)]
    /\ UNCHANGED <<config, ui, current_chat, store, chatbot,
                   previous_chats_display, run, newchat>>

\* the call of generate_sql_query(user_question) whose completion holds the
\* text
ApplyClean ==
    /\ probe.fn = "clean" /\ probe.pc = "ready"
    /\ probe' = [probe EXCEPT !.pc = "applied",
                              !.sql = generate_sql_query(Returned(PyStr(probe.text)))]
    /\ UNCHANGED <<config, ui, current_chat, store, chatbot,
                   previous_chats_display, run, newchat>>

NextPure ==
    \/ ApplyExecute
    \/ ApplyClean

SpecPure == InitPure /\ [][NextPure]_vars

(***************************************************************************)
(* Properties.                                                             *)
(***************************************************************************)
\* chat_orchestrator was called for the message of run p
Handed(p) == run[p].pc # "idle" /\ Strip(run[p].message) # ""
Done(p) == run[p].pc = "done"
\* the last string chat_orchestrator yielded in run p
LastYield(p) == run[p].yielded[Len(run[p].yielded)]
\* the names of the calls run p made, in order
CallNames(p) == [i \in 1..Len(run[p].calls) |-> run[p].calls[i].what]
\* the last pair of the transcript of run p
LastPair(p) == run[p].history[Len(run[p].history)]

\* C1: every message handed to chat_orchestrator, in either mode and for
\* every outcome (the completion service being unavailable included), ends
\* with exactly one Turn {message, response} appended to the current session,
\* and that response is the last text the run yields.
C1_EveryOutcomeAppendsOneTurn ==
    \A p \in Procs :
        (Handed(p) /\ Done(p)) =>
            /\ run[p].yielded # <<>>
            /\ run[p].appended = <<Turn(run[p].message, LastYield(p))>>

\* C2: with llm_client unset, in either mode, the run yields the fixed
\* "service unavailable" text and nothing else, makes no completion call and
\* no warehouse call, and appends no Turn other than the Terminal one.
C2_UnavailableShortCircuits ==
    \A p \in Procs :
        (Handed(p) /\ ~llm_client) =>
            /\ Done(p)
            /\ run[p].yielded = <<PyStr(UnavailableText)>>
            /\ run[p].calls = <<>>
            /\ Len(run[p].appended) <= 1
            /\ \A i \in DOMAIN run[p].appended :
                 run[p].appended[i] = Turn(run[p].message, PyStr(UnavailableText))

\* two runs, one in each mode, that met the unset client
C2_Witness ==
    \E p, q \in Procs :
        /\ ~llm_client
        /\ Handed(p) /\ Done(p) /\ run[p].mode = FleetMode
        /\ Handed(q) /\ Done(q) /\ run[q].mode = UserMode
        /\ LastPair(p) = <<run[p].message, PyStr(UnavailableText)>>

\* C3: every message that passes the blank check of respond ends with the
\* last pair of the transcript holding that message and a response string,
\* whatever the completion, the warehouse and the store do.
C3_EveryMessageGetsTextResponse ==
    \A p \in Procs :
        (Handed(p) /\ Done(p)) =>
            /\ run[p].history # <<>>
            /\ LastPair(p)[1] = run[p].message
            /\ ~LastPair(p)[2].none

\* C4: every Turn of the current session, and every final response put in
\* the transcript, has a non-empty response text.
C4_ResponsesNonEmpty ==
    /\ \A i \in DOMAIN current_chat : Truthy(current_chat[i].response)
    /\ \A p \in Procs : (Handed(p) /\ Done(p)) => Truthy(LastYield(p))

\* the run went through the whole Fleet Manager pipeline: a non-empty query
\* and at least one row
FullPipeline(p) ==
    /\ Handed(p) /\ Done(p) /\ run[p].mode = FleetMode
    /\ Truthy(run[p].sql_query) /\ run[p].raw_data # <<>>

\* C5: in Fleet Manager Mode, with a non-empty query and at least one row,
\* the response of the Turn appended for the message contains both the echoed
\* SQL text and the narration of the interpreter.
C5_ResponseHasSqlAndNarration ==
    \A p \in Procs :
        FullPipeline(p) =>
            /\ Len(run[p].appended) = 1
            /\ ~run[p].appended[1].response.none
            /\ Contains(run[p].appended[1].response.s, run[p].sql_query.s)
            /\ Contains(run[p].appended[1].response.s, Fmt(run[p].final_answer))

\* C5 as amended: app.py appends a response that contains both the SQL and
\* the narration; main.py appends the narration alone and shows the SQL only
\* in the "Executing query" progress string.
C5_Amended ==
    \A p \in Procs :
        FullPipeline(p) =>
            /\ Len(run[p].appended) = 1
            /\ run[p].appended[1].message = run[p].message
            /\ variant = "app" =>
                 /\ ~run[p].appended[1].response.none
                 /\ Contains(run[p].appended[1].response.s, run[p].sql_query.s)
                 /\ Contains(run[p].appended[1].response.s, Fmt(run[p].final_answer))
            /\ variant = "main" =>
                 /\ run[p].appended[1].response = run[p].final_answer
                 /\ \E i \in DOMAIN run[p].yielded :
                      /\ i < Len(run[p].yielded)
                      /\ run[p].yielded[i] = PyStr(ExecutingText(run[p].sql_query.s))

\* app.py narrated the one row of the count query
C5_Witness ==
    \E p \in Procs :
        /\ FullPipeline(p) /\ variant = "app"
        /\ run[p].sql_query = PyStr("SELECT COUNT(*) as count FROM t")
        /\ run[p].query_results = "Query Results (1 rows):\n\ncount: 7\n"
        /\ Truthy(run[p].final_answer)
        /\ current_chat = run[p].appended

\* C6: in Fleet Manager Mode, when generate_sql_query returns None or an
\* empty string, the run ends with the fixed "couldn't generate" text,
\* appends exactly one Turn with that text, and calls neither the executor
\* nor the interpreter.
C6_NoQueryEndsRun ==
    \A p \in Procs :
        (Handed(p) /\ run[p].mode = FleetMode /\ run[p].calls # <<>>
           /\ ~Truthy(run[p].sql_query)) =>
            /\ Done(p)
            /\ LastYield(p) = PyStr(NoQueryText)
            /\ run[p].appended = <<Turn(run[p].message, PyStr(NoQueryText))>>
            /\ CallNames(p) = <<"synthesis">>

\* one run got None and another the empty string
C6_Witness ==
    \E p, q \in Procs :
        /\ Handed(p) /\ Done(p) /\ run[p].calls = <<[what |-> "synthesis", result |-> PyNone]>>
        /\ Handed(q) /\ Done(q) /\ run[q].calls = <<[what |-> "synthesis", result |-> PyStr("")]>>
        /\ current_chat = run[p].appended \o run[q].appended

\* a run handled in User Mode that has ended
UserRun(p) == Handed(p) /\ Done(p) /\ run[p].mode # FleetMode

\* what C7 says of an ended User Mode run: one completion call, nothing
\* else, and one Turn with the content of the completion or the fixed error
OneAdviceCall(p) ==
    /\ CallNames(p) = <<"advice">>
    /\ run[p].appended =
         <<Turn(run[p].message,
                IF run[p].calls[1].result.raised
                THEN PyStr(UserErrorText(variant))
                ELSE run[p].calls[1].result.content)>>

\* C7: in User Mode, handling one message makes exactly one completion call,
\* no warehouse call and no SQL generation, and appends exactly one Turn whose
\* response is the completion text or the fixed error string.
C7_UserModeOneCall == \A p \in Procs : UserRun(p) => OneAdviceCall(p)

\* C7 as amended: the same, when the completion capability is available.
C7_Amended == \A p \in Procs : (UserRun(p) /\ llm_client) => OneAdviceCall(p)

\* one User Mode run whose completion failed and one whose completion
\* returned a text
C7_Witness ==
    \E p, q \in Procs :
        /\ UserRun(p) /\ llm_client /\ run[p].calls[1].result.raised
        /\ UserRun(q) /\ Truthy(run[q].calls[1].result.content)
        /\ LastYield(q) = run[q].calls[1].result.content

\* C8: the interpreter is called only after the executor returned at least
\* one row; on an empty row list the run ends with the "query executed" text
\* followed by the text of the executor, appends one Turn with it, and makes
\* no second completion call.
C8_InterpreterOnlyWithRows ==
    \A p \in Procs :
        /\ (\E i \in DOMAIN run[p].calls : run[p].calls[i].what = "interpretation") =>
              /\ Len(run[p].calls) = 3
              /\ run[p].calls[2].what = "warehouse"
              /\ run[p].calls[2].result.rows # <<>>
        /\ (Len(run[p].calls) >= 2 /\ run[p].calls[2].what = "warehouse"
              /\ run[p].calls[2].result.rows = <<>>) =>
              /\ Done(p)
              /\ LastYield(p) = PyStr(ExecutedPrefix \o run[p].calls[2].result.text)
              /\ run[p].appended = <<Turn(run[p].message, LastYield(p))>>
              /\ CallNames(p) = <<"synthesis", "warehouse">>

\* a run whose query returned no row, and a run that was narrated
C8_Witness ==
    \E p, q \in Procs :
        /\ Done(p) /\ Len(run[p].calls) = 2
        /\ run[p].calls[2].result = [text |-> NoDataText, rows |-> <<>>]
        /\ Done(q) /\ Len(run[q].calls) = 3

\* start_new_chat n is past save_chat_session
PastSave(n) == newchat[n].pc # "idle"

\* the document C9 expects for the session start_new_chat n found
IsRecordOf(d, chat) ==
    /\ d.userid = USERID
    /\ d.title = SubSeq(chat[1].message, 1, Min(TitleLen, Len(chat[1].message)))
    /\ d.conversation = chat

\* the store takes the write of start_new_chat n: the collection is set and
\* insert_one succeeds
StoreTakes(n) == collection /\ newchat[n].insert_ok

StoreAvailable == collection /\ \A n \in NewChats : newchat[n].insert_ok

\* how many places of the persisted records hold the Turn t
Occurrences(t) ==
    Cardinality({ki \in (DOMAIN store) \X (1..NumProcs) :
                   /\ ki[2] \in DOMAIN store[ki[1]].conversation
                   /\ store[ki[1]].conversation[ki[2]] = t})

\* C10: with the store available, under every interleaving of pipelines and
\* start_new_chat calls, a Turn appended to the current session is in the
\* current session until it is persisted and then in exactly one record: it
\* is never dropped between the store write and the reset, and never in two
\* records.  (Stated of the Turns no other run appended an equal of.)
C10_PersistedExactlyOnce ==
    StoreAvailable =>
        \A p \in Procs :
            (/\ Len(run[p].appended) = 1
             /\ \A q \in Procs \ {p} : run[q].appended # run[p].appended) =>
                /\ Occurrences(run[p].appended[1]) <= 1
                /\ Occurrences(run[p].appended[1]) = 0 =>
                     \E i \in DOMAIN current_chat : current_chat[i] = run[p].appended[1]

\* C11: when the session store is unavailable or a store call fails,
\* save_chat_session completes without writing and get_all_chats returns
\* the empty list; neither raises, so every start_new_chat runs to its end.
C11_StoreFailuresDegrade ==
    \A n \in NewChats :
        /\ newchat[n].pc # "raised"
        /\ (newchat[n].pc # "idle" /\ ~newchat[n].insert_ok) =>
              newchat[n].saved = <<>>

\* the function fn was applied to the input of the probe
Applied(fn) == probe.fn = fn /\ probe.pc = "applied"
ErrorPrefix == "Error executing query: "

\* C12: execute_sql_query never raises: when connecting, opening the cursor,
\* executing or fetching fails, it returns an error-description string (the
\* fixed prefix and the text of the error) together with an empty row list.
C12_ExecuteNeverRaises ==
    Applied("execute") =>
        /\ ~probe.outcome.raised
        /\ probe.wh.fail # "none" =>
             /\ probe.outcome.rows = <<>>
             /\ probe.outcome.text \in {ErrorPrefix \o probe.wh.err,
                                        ErrorPrefix \o probe.wh.close_err}

\* each variant met a failed connect and returned its error text
C12_Witness ==
    /\ Applied("execute")
    /\ probe.wh.fail = "connect"
    /\ ~probe.wh.cursor_close_raises /\ ~probe.wh.connection_close_raises
    /\ probe.outcome.text = "Error executing query: syntax error"
    /\ probe.outcome.rows = <<>>

\* the call of the probe got its rows and nothing replaced what it returns:
\* no stage failed, and in main.py, where an error of a close is caught as
\* an error of the query, no close raised
GotRows ==
    /\ Applied("execute")
    /\ probe.wh.fail = "none"
    /\ variant = "main" =>
         ~probe.wh.cursor_close_raises /\ ~probe.wh.connection_close_raises

\* C13: when the warehouse returns zero rows, the formatted output is the
\* fixed "no data found" text and the raw row list returned is empty.
C13_ZeroRowsNoData ==
    (GotRows /\ probe.wh.rows = <<>>) =>
        /\ probe.outcome.text = "No data found matching your query."
        /\ probe.outcome.rows = <<>>

\* a result of two columns and no row
C13_Witness ==
    /\ GotRows
    /\ probe.wh.rows = <<>> /\ Len(probe.wh.columns) = 2
    /\ probe.outcome.text = "No data found matching your query."

\* the block of one row: a line per column and a blank line
RowBlock(columns, row) ==
    Join([j \in 1..Len(columns) |-> columns[j] \o ": " \o row[j] \o "\n"]) \o "\n"
\* the blocks of the rows i..k, in order
RECURSIVE BlocksBetween(_, _, _, _)
BlocksBetween(columns, rows, i, k) ==
    IF i > k THEN ""
    ELSE IF i = k THEN RowBlock(columns, rows[i])
    ELSE BlocksBetween(columns, rows, i, (i + k) \div 2)
         \o BlocksBetween(columns, rows, (i + k) \div 2 + 1, k)
FirstBlocks(columns, rows, k) == BlocksBetween(columns, rows, 1, k)
HeaderLine(n) == "Query Results (" \o ToString(n) \o " rows):\n\n"
TruncationSuffix(l, n) ==
    "\n(Showing first " \o ToString(l) \o " of " \o ToString(n) \o " results)"

\* C14: with N rows and the display limit L (50 in app.py, 100 in main.py),
\* when N > L the formatted output holds the blocks of the first L rows, in
\* order, and no other, followed by a truncation suffix that names L and N;
\* when 1 < N <= L it holds the blocks of all N rows and no truncation
\* suffix.  The raw row list returned holds all N rows.
C14_DisplayLimit ==
    LET n == Len(probe.wh.rows)
        l == IF variant = "app" THEN 50 ELSE 100
    IN (GotRows /\ n > 1) =>
          /\ probe.outcome.rows = probe.wh.rows
          /\ n > l =>
               /\ probe.outcome.text =
                    HeaderLine(n)
                      \o FirstBlocks(probe.wh.columns, probe.wh.rows, l)
                      \o TruncationSuffix(l, n)
               /\ ~Contains(probe.outcome.text,
                            RowBlock(probe.wh.columns, probe.wh.rows[l + 1]))
          /\ n <= l =>
               /\ probe.outcome.text =
                    HeaderLine(n)
                      \o FirstBlocks(probe.wh.columns, probe.wh.rows, n)
               /\ ~Contains(probe.outcome.text, "(Showing first")

\* main.py cut a result of 101 rows to its first 100
C14_Witness ==
    /\ GotRows /\ variant = "main"
    /\ Len(probe.wh.rows) = 101 /\ Len(probe.wh.columns) = 2
    /\ Contains(probe.outcome.text, "c1: v100.1\nc2: v100.2\n\n\n(Showing first 100 of 101 results)")
    /\ ~Contains(probe.outcome.text, "v101.1")
    /\ Len(probe.outcome.rows) = 101

\* the probe is a result of exactly one row with exactly one column
OneByOne == Len(probe.wh.rows) = 1 /\ Len(probe.wh.columns) = 1

\* C15: a result of exactly one row with one column is formatted as the
\* single compact `column: value` line and nothing else (one row
\* {count: 7} gives `count: 7`); every other non-empty shape is formatted
\* as one block per row.
C15_SingleValueCompact ==
    (GotRows /\ probe.wh.rows # <<>>) =>
        IF OneByOne
        THEN probe.outcome.text
               \in {probe.wh.columns[1] \o ": " \o probe.wh.rows[1][1],
                    probe.wh.columns[1] \o ": " \o probe.wh.rows[1][1] \o "\n"}
        ELSE Contains(probe.outcome.text,
                      RowBlock(probe.wh.columns, probe.wh.rows[1]))

\* C15 as amended: every non-empty result starts with the header line
\* "Query Results (N rows):" and a blank line; a result of one row with one
\* column then holds the single line `column: value` with no blank line
\* after it, and every other shape one block per displayed row.
C15_Amended ==
    LET n == Len(probe.wh.rows)
        shown == Min(n, IF variant = "app" THEN 50 ELSE 100)
        body == SubSeq(probe.outcome.text, Len(HeaderLine(n)) + 1,
                       Len(probe.outcome.text))
    IN (GotRows /\ n > 0) =>
          /\ StartsAt(probe.outcome.text, 1, HeaderLine(n))
          /\ IF OneByOne
             THEN body = probe.wh.columns[1] \o ": " \o probe.wh.rows[1][1] \o "\n"
             ELSE /\ StartsAt(body, 1, FirstBlocks(probe.wh.columns, probe.wh.rows, shown))
                  /\ \A i \in 1..shown :
                       Contains(body, RowBlock(probe.wh.columns, probe.wh.rows[i]))

\* the result whose one row is {count: 7}
C15_Witness ==
    /\ GotRows
    /\ probe.wh.columns = <<"count">> /\ probe.wh.rows = <<<<"7">>>>
    /\ probe.outcome.text = "Query Results (1 rows):\n\ncount: 7\n"
    /\ probe.outcome.rows = <<<<"7">>>>

\* C16: the mode stored with a persisted session record is the mode under
\* which every Turn of that session was handled, whatever the sequence of
\* messages, mode-selector changes and start_new_chat calls.  (Stated of
\* the Turns no other run appended an equal of.)
C16_StoredModeIsTurnMode ==
    \A k \in DOMAIN store :
        \A p \in Procs :
            (/\ Len(run[p].appended) = 1
             /\ \A q \in Procs \ {p} : run[q].appended # run[p].appended
             /\ \E i \in DOMAIN store[k].conversation :
                  store[k].conversation[i] = run[p].appended[1]) =>
                store[k].mode = run[p].mode

\* C17: after execute_sql_query returns, on success or on a failure of any
\* stage, close() has been invoked exactly once on the connection and
\* exactly once on the cursor (on each of the two the call got hold of), and
\* an error raised by a close does not change the returned value: the call
\* returns what it returns when the closes succeed.
C17_ClosedOnceValueKept ==
    Applied("execute") =>
        /\ probe.wh.fail # "connect" => probe.outcome.connection_closes = 1
        /\ probe.wh.fail \notin {"connect", "cursor"} =>
             probe.outcome.cursor_closes = 1
        /\ ~probe.outcome.raised
        /\ probe.outcome.text =
             ExecuteOutcome(variant, CloseRaising(probe.wh, FALSE, FALSE, "")).text
        /\ probe.outcome.rows =
             ExecuteOutcome(variant, CloseRaising(probe.wh, FALSE, FALSE, "")).rows

\* C18: fence-stripping is idempotent: for every completion text, the
\* stripping step (trim, delete each fence marker with its whitespace,
\* trim) applied to its own output returns that output unchanged, so the
\* SQL handed to the executor contains no fence marker.
C18_FenceStripIdempotent ==
    Applied("clean") =>
        /\ ~probe.sql.none
        /\ Strip(ReSubFences(Strip(probe.sql.s))) = probe.sql.s
        /\ ~Contains(probe.sql.s, "^^^")

\* q is the start of the sequence s
IsPrefix(q, s) == Len(q) <= Len(s) /\ q = SubSeq(s, 1, Len(q))

\* C19: within one Fleet Manager message the external calls are made in
\* the order synthesis, warehouse, interpretation, each at most once; a
\* stage is started only when the stage before it has returned, and a
\* stage that failed is not called again.
C19_CallsInOrder ==
    \A p \in Procs :
        (Handed(p) /\ run[p].mode = FleetMode) =>
            /\ IsPrefix(CallNames(p), <<"synthesis", "warehouse", "interpretation">>)
            /\ run[p].pc \in {"generate", "execute", "interpret", "done"}
            \* the call in flight is the one after those that returned
            /\ run[p].pc = "generate" => CallNames(p) = <<>>
            /\ run[p].pc = "execute" => CallNames(p) = <<"synthesis">>
            /\ run[p].pc = "interpret" => CallNames(p) = <<"synthesis", "warehouse">>
            \* a failure ends the calls of the run
            /\ (Len(run[p].calls) >= 1 /\ ~Truthy(run[p].calls[1].result)) =>
                  Done(p) /\ Len(run[p].calls) = 1
            /\ (Len(run[p].calls) >= 2 /\ run[p].calls[2].result.rows = <<>>) =>
                  Done(p) /\ Len(run[p].calls) = 2
            /\ Len(run[p].calls) = 3 => Done(p)

\* one run made the three calls, the last of which raised, and another
\* stopped at the warehouse call that failed
C19_Witness ==
    \E p, q \in Procs :
        /\ Handed(p) /\ Done(p) /\ run[p].mode = FleetMode
        /\ CallNames(p) = <<"synthesis", "warehouse", "interpretation">>
        /\ variant = "app"
        /\ run[p].final_answer
             = PyStr("Here are the query results:\n\nQuery Results (1 rows):\n\ncount: 7\n")
        /\ Handed(q) /\ Done(q) /\ run[q].mode = FleetMode
        /\ CallNames(q) = <<"synthesis", "warehouse">>
        /\ run[q].query_results = "Error executing query: syntax error"

\* the Turns of the current session, of the persisted records and of the
\* history variables of the runs
AllTurns ==
    {current_chat[i] : i \in DOMAIN current_chat}
      \cup UNION {{store[k].conversation[i] : i \in DOMAIN store[k].conversation} :
                    k \in DOMAIN store}
      \cup UNION {{run[p].appended[i] : i \in DOMAIN run[p].appended} : p \in Procs}

\* C20: progress strings are never persisted: the response of every Turn
\* appended for a message is the last string chat_orchestrator yields for
\* it, every earlier yield of the invocation is the response of no Turn,
\* and the pair of the transcript for the message ends holding the final
\* response.
C20_ProgressNeverPersisted ==
    \A p \in Procs :
        Handed(p) =>
            /\ \A i \in DOMAIN run[p].appended :
                 /\ Done(p)
                 /\ run[p].appended[i] = Turn(run[p].message, LastYield(p))
            /\ \A i \in 1..(Len(run[p].yielded) - 1) :
                 \A t \in AllTurns : t.response # run[p].yielded[i]
            /\ (Done(p) /\ run[p].yielded # <<>>) =>
                 LastPair(p) = <<run[p].message, LastYield(p)>>

\* main.py yielded its three progress strings and then the narration, and
\* the session holds the narration alone
C20_Witness ==
    \E p \in Procs :
        /\ variant = "main" /\ Handed(p) /\ Done(p)
        /\ Len(run[p].yielded) = 4
        /\ run[p].yielded[1] = PyStr("Analyzing your question and generating database query...")
        /\ run[p].yielded[3] = PyStr("Analyzing results...")
        /\ Truthy(run[p].yielded[4])
        /\ current_chat = <<Turn(run[p].message, run[p].yielded[4])>>
        /\ LastPair(p) = <<run[p].message, run[p].yielded[4]>>

\* the response says that the query executed successfully
ClaimsSuccess(response) ==
    ~response.none /\ Contains(response.s, "Query executed successfully")
\* the text execute_sql_query returns when the query failed
IsErrorText(text) == StartsAt(text, 1, "Error executing query: ")

\* C21: a response that says the query executed successfully is produced
\* only when the warehouse executed the query without error (and returned
\* zero rows); when execute_sql_query fails, the Terminal response of the
\* message does not claim success.
C21_SuccessOnlyWithoutError ==
    \A p \in Procs :
        (Handed(p) /\ Done(p) /\ run[p].yielded # <<>>) =>
            /\ ClaimsSuccess(LastYield(p)) =>
                 /\ Len(run[p].calls) >= 2
                 /\ run[p].calls[2].what = "warehouse"
                 /\ ~IsErrorText(run[p].calls[2].result.text)
                 /\ run[p].calls[2].result.rows = <<>>
            /\ (/\ Len(run[p].calls) >= 2
                /\ IsErrorText(run[p].calls[2].result.text)) =>
                 /\ ~ClaimsSuccess(LastYield(p))
                 /\ \A i \in DOMAIN run[p].appended :
                      ~ClaimsSuccess(run[p].appended[i].response)

====
